---------------------------- MODULE Spec2Model ----------------------------
(***************************************************************************)
(* Model of the visa-appointment watcher (src/jp_visa_tool.py).            *)
(*                                                                         *)
(* Conventions.                                                            *)
(*  - An ISO date string "YYYY-MM-DD" is the tuple <<y, m, d>>: the string *)
(*    is zero padded, so its lexicographic order is the tuple's.           *)
(*  - A month label "YYYY年MM月" is the tuple <<y, m>>.                    *)
(*  - A Python dict is the sequence of its <<key, value>> items in         *)
(*    insertion order (the order .items() iterates in).                    *)
(*  - The text of a day cell is a sequence of tokens: a natural number is  *)
(*    a run of digits standing alone between word boundaries, Word is any  *)
(*    other text.                                                          *)
(***************************************************************************)
EXTENDS Integers, Sequences, FiniteSets, TLC

(***************************************************************************)
(* Program constants                                                       *)
(***************************************************************************)
SCAN_NEXT_MONTHS == 3

DOW_EN ==
  <<"Monday", "Tuesday", "Wednesday", "Thursday", "Friday", "Saturday", "Sunday">>

\* a token of cell text that is not a number of one or two digits
Word == -1
\* re.search found nothing
NoMatch == -1

(***************************************************************************)
(* datetime.date as used by available_dates_current_month                  *)
(***************************************************************************)
IsLeap(y) == (y % 4 = 0) /\ ((y % 100 # 0) \/ (y % 400 = 0))

DaysInMonth(y, m) ==
  IF m = 2 THEN (IF IsLeap(y) THEN 29 ELSE 28)
  ELSE IF m \in {4, 6, 9, 11} THEN 30 ELSE 31

\* date(year, month, day) raises ValueError unless this holds
ValidDate(y, m, d) ==
  /\ y \in 1..9999
  /\ m \in 1..12
  /\ d \in 1..DaysInMonth(y, m)

RECURSIVE DaysBeforeMonth(_, _)
DaysBeforeMonth(y, m) ==
  IF m <= 1 THEN 0 ELSE DaysBeforeMonth(y, m - 1) + DaysInMonth(y, m - 1)

ToOrdinal(y, m, d) ==
  LET p == y - 1
  IN  p * 365 + (p \div 4) - (p \div 100) + (p \div 400) + DaysBeforeMonth(y, m) + d

\* d.weekday(): Monday is 0
Weekday(y, m, d) == (ToOrdinal(y, m, d) + 6) % 7

\* (d.isoformat(), DOW_EN[d.weekday()])
DateEntry(y, m, d) == <<(<<y, m, d>>), DOW_EN[Weekday(y, m, d) + 1]>>

(***************************************************************************)
(* Python's ordering of the (iso, weekday-name) tuples                     *)
(***************************************************************************)
StrRank(s) ==
  CASE s = "Friday" -> 1
    [] s = "Monday" -> 2
    [] s = "Saturday" -> 3
    [] s = "Sunday" -> 4
    [] s = "Thursday" -> 5
    [] s = "Tuesday" -> 6
    [] s = "Wednesday" -> 7

IsoLess(a, b) ==
  \/ a[1] < b[1]
  \/ a[1] = b[1] /\ a[2] < b[2]
  \/ a[1] = b[1] /\ a[2] = b[2] /\ a[3] < b[3]

EntryLess(a, b) ==
  \/ IsoLess(a[1], b[1])
  \/ a[1] = b[1] /\ StrRank(a[2]) < StrRank(b[2])

SeqToSet(s) == {s[k] : k \in 1..Len(s)}

\* sorted(S) for a set S of entries
RECURSIVE Sorted(_)
Sorted(S) ==
  IF S = {} THEN << >>
  ELSE LET lo == CHOOSE x \in S : \A z \in S \ {x} : EntryLess(x, z)
       IN  <<lo>> \o Sorted(S \ {lo})

(***************************************************************************)
(* available_dates_current_month                                           *)
(***************************************************************************)
\* re.search(r"\b(\d{1,2})\b", text): the first number of one or two digits
RECURSIVE FirstDayNumber(_)
FirstDayNumber(text) ==
  IF text = << >> THEN NoMatch
  ELSE IF Head(text) \in 0..99 THEN Head(text)
  ELSE FirstDayNumber(Tail(text))

\* the for loop over the marker images: results.append(...) or continue
RECURSIVE CollectDates(_, _, _)
CollectDates(y, m, cells) ==
  IF cells = << >> THEN << >>
  ELSE LET n == FirstDayNumber(Head(cells))
           rest == CollectDates(y, m, Tail(cells))
       IN  IF n = NoMatch THEN rest
           ELSE IF ~ValidDate(y, m, n) THEN rest
           ELSE <<DateEntry(y, m, n)>> \o rest

NormalizeNoDedup(rs) == rs

\* results = sorted(set(results))
Normalize(rs) == Sorted(SeqToSet(rs))

available_dates_current_month(y, m, cells) == Normalize(CollectDates(y, m, cells))


(***************************************************************************)
(* Bounds of the data the checks enumerate                                 *)
(***************************************************************************)
MaxMarkers == 3
MaxInserts == 2

\* texts of day cells: "3", "17", "31", "○" (no number), "0", "2025 3"
CellTexts == {<<3>>, <<17>>, <<31>>, <<Word>>, <<0>>, <<2025, 3>>}
\* displayed months: May 2025, Feb 2024 (leap), Nov 2025 (30 days), header "2025年13月"
Headers == {<<2025, 5>>, <<2024, 2>>, <<2025, 11>>, <<2025, 13>>}

VARIABLES
  year, month, imgs, dates, dpc,     \* one call of available_dates_current_month
  foundA, foundB, rawA, rawB         \* two scan results and the marker cells behind them

VARIABLES
  mean, std,         \* one call of jittered_gaussian_delay, in seconds
  zdraw,             \* the deviate of random.gauss, in tenths of std
  jitter,            \* random.uniform(-2, 2), in tenths of a second
  delay, qpc,        \* the value returned; position of the call
  report, body, mpc  \* one call of format_email: argument, value returned, position

VARIABLES
  pc,                \* the statement the single control flow is at
  \* main and run_browser_session
  session,           \* calls of run_browser_session so far
  contexts,          \* browser contexts open
  cycle,             \* scans begun in this session
  caller,            \* who called ensure_category_only: "init" or "refresh"
  last_signature,    \* << >> is None, <<sig>> a signature
  results,
  sent,              \* signatures of the notifications delivered in this session
  attempted,         \* signatures send_qq_email was to be called with, this session
  policy,            \* the delay policy of the last jittered_gaussian_delay call
  error,             \* the exception propagating, "" if none
  \* the page
  html,              \* content of the calendar table
  rerender,          \* asynchronous re-renders of the calendar still to come
  catShown,          \* the text "VISA Application" is visible
  pickerOpen,        \* the category picker is open
  detailsClicks,     \* clicks received by the "Select Application Details" field
  layout,            \* markup of the two picker fields
  shown,             \* displayed month, counted from the default month
  pendingNav,        \* next-month clicks the page has not applied yet
  calendar,          \* which calendar the server shows since the last load
  reconciled,        \* ensure_category_only has returned since the last load
  \* ensure_category_only and _wait_calendar_changed_and_stable
  old_fp_js, attempt, opened, cand, fp1, fp2,
  clicks,            \* clicks made in the current attempt
  screenshots,       \* page.screenshot invocations of this call
  pauses,            \* wait_for_timeout(900) of this call
  textSeen,          \* the grace wait of this call found "VISA Application" visible
  trail,             \* pauses and _calendar_fingerprint calls of the current settle check
  \* scan_months and click_next_month
  i, found, label, before,
  ops                \* month reads and next-month advances of the current scan

datesVars == <<year, month, imgs, dates, dpc>>
sigVars == <<foundA, foundB, rawA, rawB>>
delayVars == <<mean, std, zdraw, jitter, delay, qpc>>
mailVars == <<report, body, mpc>>
funVars == <<delayVars, mailVars>>
sessVars ==
  <<session, contexts, cycle, caller, last_signature, results, sent, attempted, policy, error>>
pageVars ==
  <<html, rerender, catShown, pickerOpen, detailsClicks, layout, shown, pendingNav, calendar>>
selVars ==
  <<old_fp_js, textSeen, attempt, opened, cand, fp1, fp2, clicks, screenshots, pauses, trail>>
scanVars == <<i, found, label, before, ops>>
mainVars == <<pc, sessVars, pageVars, reconciled, selVars, scanVars>>
vars == <<datesVars, sigVars, funVars, mainVars>>

(***************************************************************************)
(* dict: keys in insertion order, val the mapping                          *)
(***************************************************************************)
EmptyDict == [keys |-> << >>, val |-> << >>]

HasKey(d, k) == \E j \in 1..Len(d.keys) : d.keys[j] = k

\* d[k] for a key that is present
DictGet(d, k) == d.val[CHOOSE j \in 1..Len(d.keys) : d.keys[j] = k]

\* d[k] = v: a present key keeps its position, a new key goes last
DictSet(d, k, v) ==
  IF HasKey(d, k)
  THEN [d EXCEPT !.val[CHOOSE j \in 1..Len(d.keys) : d.keys[j] = k] = v]
  ELSE [keys |-> Append(d.keys, k), val |-> Append(d.val, v)]

\* d1 == d2 in Python: same keys with the same values, whatever the order
DictEq(d1, d2) ==
  /\ SeqToSet(d1.keys) = SeqToSet(d2.keys)
  /\ \A k \in SeqToSet(d1.keys) : DictGet(d1, k) = DictGet(d2, k)

\* tuple((m, tuple(v)) for m, v in results.items())
Signature(res) ==
  [j \in 1..Len(res.keys) |-> <<res.keys[j], res.val[j]>>]

\* any(results[m] for m in results)
HasAvail(res) == \E j \in 1..Len(res.keys) : res.val[j] # << >>

DelayIdle ==
  mean = 0 /\ std = 0 /\ zdraw = 0 /\ jitter = 0 /\ delay = 0 /\ qpc = "idle"
MailIdle == report = EmptyDict /\ body = << >> /\ mpc = "idle"
DatesIdle == year = 0 /\ month = 0 /\ imgs = << >> /\ dates = << >> /\ dpc = "idle"
SigIdle == foundA = EmptyDict /\ foundB = EmptyDict /\ rawA = << >> /\ rawB = << >>

(***************************************************************************)
(* Bounds of the watcher model                                             *)
(***************************************************************************)
MaxSessions == 2
MaxCycles == 3
MaxRerender == 1
MaxPending == 2

(***************************************************************************)
(* The page                                                                *)
(***************************************************************************)
\* calendar table content: edge is what the cheap probe sees (length, first
\* and last 64 characters), body the rest
Htmls == [edge : 0..1, body : 0..1]

\* hashlib.md5(html.encode("utf-8")).hexdigest()
Md5(h) == <<"md5", h.edge, h.body>>
NoFp == <<"md5", -1, -1>>

\* f"{len(old_html)}:{old_html[:64]}:{old_html[-64:] ...}"
PyProbe(h) == <<"probe", h.edge>>

\* `${html.length}:${html.slice(0,64)}:${html.slice(-64)}`
JsProbe(h) == <<"probe", h.edge>>

\* each heading is followed by its own picker field, a link, an element with
\* role="button" or a button; both fields of the page use the same markup
Kinds == {"a", "role", "button"}
Layouts == {[category |-> k, details |-> k] : k \in Kinds}

\* the picker fields after the heading "Select a category", in document order
FieldsAfterHeading(lay) ==
  <<[ctl |-> "category", kind |-> lay.category], [ctl |-> "details", kind |-> lay.details]>>

\* open_candidates: following::a[1], following::*[@role='button'][1],
\* following::button[1]
CandidateKindButtonFirst(c) == IF c = 1 THEN "button" ELSE IF c = 2 THEN "role" ELSE "a"

CandidateKind(c) == IF c = 1 THEN "a" ELSE IF c = 2 THEN "role" ELSE "button"

SecondMatch(fields, kinds) ==
  LET js == {j \in 1..Len(fields) : fields[j].kind \in kinds}
  IN  IF Cardinality(js) < 2 THEN "none"
      ELSE fields[CHOOSE j \in js : Cardinality({z \in js : z < j}) = 1].ctl

\* the first element, in document order, that a selector matches
FirstMatch(fields, kinds) ==
  LET js == {j \in 1..Len(fields) : fields[j].kind \in kinds}
  IN  IF js = {} THEN "none"
      ELSE fields[CHOOSE j \in js : \A z \in js : j <= z].ctl

\* the element candidate c resolves to
ResolveSecond(lay, c) == SecondMatch(FieldsAfterHeading(lay), {CandidateKind(c)})

Resolve(lay, c) == FirstMatch(FieldsAfterHeading(lay), {CandidateKind(c)})

\* block.locator("a, [role='button'], button").first
ResolveFallback(lay) == FirstMatch(FieldsAfterHeading(lay), Kinds)

\* what a click that landed on a picker field does to the page
ClickField(target) ==
  /\ pickerOpen' = (IF target = "category" THEN TRUE ELSE pickerOpen)
  /\ detailsClicks' = (IF target = "details" THEN detailsClicks + 1 ELSE detailsClicks)

(***************************************************************************)
(* Propagation of exceptions                                               *)
(***************************************************************************)
\* an exception leaves run_browser_session's try block: the finally runs next
FatalSkipsClose(e) == pc' = "m_except" /\ error' = e

Fatal(e) == pc' = "s_finally" /\ error' = e

SelectPcs ==
  {"e_entry", "e_grace", "e_fp1", "e_fp2", "e_settle", "a_begin", "a_cand",
   "a_fallback", "a_option", "w_changed", "w_fp1", "w_fp2", "w_settle", "a_except"}

\* the page re-renders the calendar on its own schedule
PageRerender ==
  /\ pc \in SelectPcs
  /\ rerender > 0
  /\ rerender' = rerender - 1
  /\ \E h \in Htmls \ {html} : html' = h
  /\ UNCHANGED <<pc, sessVars, catShown, pickerOpen, detailsClicks, layout, shown,
                 pendingNav, calendar, selVars, scanVars, datesVars, sigVars, funVars,
                 reconciled>>

\* for attempt in range(1, 4): the attempt after which the loop ends
LastAttemptFour(a) == a = 4

LastAttempt(a) == a = 3

\* if fp1 != fp2: the extended settle pause is due
NeedsSettleNever(a, b) == FALSE

NeedsSettle(a, b) == a # b

(***************************************************************************)
(* ensure_category_only                                                    *)
(***************************************************************************)
\* wait for the table, capture the cheap fingerprint
EnsureEntry ==
  /\ pc = "e_entry"
  /\ \/ /\ old_fp_js' = PyProbe(html) /\ textSeen' = FALSE
        /\ attempt' = 0 /\ opened' = FALSE /\ cand' = 0
        /\ fp1' = NoFp /\ fp2' = NoFp
        /\ clicks' = << >> /\ screenshots' = 0 /\ pauses' = 0
        /\ trail' = << >>
        /\ pc' = "e_grace"
        /\ UNCHANGED error
     \/ /\ Fatal("TimeoutError")
        /\ UNCHANGED selVars
  /\ UNCHANGED <<session, contexts, cycle, caller, last_signature, results, sent,
                 attempted, policy, pageVars, scanVars, datesVars, sigVars, funVars,
                 reconciled>>

\* get_by_text("VISA Application").first.wait_for(timeout=1200)
EnsureGrace ==
  /\ pc = "e_grace"
  /\ IF catShown
     THEN pc' = "e_fp1" /\ textSeen' = TRUE /\ UNCHANGED attempt
     ELSE pc' = "a_begin" /\ attempt' = 1 /\ UNCHANGED textSeen   \* except: pass
  /\ UNCHANGED <<sessVars, pageVars, old_fp_js, opened, cand, fp1, fp2, clicks,
                 screenshots, pauses, trail, scanVars, datesVars, sigVars, funVars,
                 reconciled>>

\* wait_for_timeout(350); fp1 = await _calendar_fingerprint(page)
AlreadyFp1 ==
  /\ pc = "e_fp1"
  /\ \/ /\ fp1' = Md5(html) /\ trail' = trail \o <<"wait350", "md5">>
        /\ pc' = "e_fp2"
        /\ UNCHANGED attempt
     \/ /\ pc' = "a_begin" /\ attempt' = 1           \* except Exception: pass
        /\ UNCHANGED <<fp1, trail>>
  /\ UNCHANGED <<sessVars, pageVars, old_fp_js, textSeen, opened, cand, fp2, clicks,
                 screenshots, pauses, scanVars, datesVars, sigVars, funVars,
                 reconciled>>

\* wait_for_timeout(450); fp2 = await _calendar_fingerprint(page)
AlreadyFp2 ==
  /\ pc = "e_fp2"
  /\ \/ /\ fp2' = Md5(html) /\ trail' = trail \o <<"wait450", "md5">>
        /\ pc' = "e_settle"
        /\ UNCHANGED attempt
     \/ /\ pc' = "a_begin" /\ attempt' = 1           \* except Exception: pass
        /\ UNCHANGED <<fp2, trail>>
  /\ UNCHANGED <<sessVars, pageVars, old_fp_js, textSeen, opened, cand, fp1, clicks,
                 screenshots, pauses, scanVars, datesVars, sigVars, funVars,
                 reconciled>>

\* if fp1 != fp2: wait_for_timeout(650); return
AlreadySettle ==
  /\ pc = "e_settle"
  /\ trail' = (IF NeedsSettle(fp1, fp2) THEN Append(trail, "wait650") ELSE trail)
  /\ reconciled' = TRUE
  /\ pc' = "e_return"
  /\ UNCHANGED <<sessVars, pageVars, old_fp_js, textSeen, attempt, opened, cand, fp1, fp2, clicks,
                 screenshots, pauses, scanVars, datesVars, sigVars, funVars>>

\* log; heading.wait_for(state="visible"); build open_candidates
AttemptBegin ==
  /\ pc = "a_begin"
  /\ \/ /\ opened' = FALSE /\ cand' = 1 /\ clicks' = << >>
        /\ pc' = "a_cand"
     \/ /\ pc' = "a_except"
        /\ UNCHANGED <<opened, cand, clicks>>
  /\ UNCHANGED <<sessVars, pageVars, old_fp_js, textSeen, attempt, fp1, fp2,
                 screenshots, pauses, trail, scanVars, datesVars, sigVars, funVars,
                 reconciled>>

\* one round of: for cand in open_candidates
TryCandidate ==
  /\ pc = "a_cand"
  /\ \/ /\ Resolve(layout, cand) # "none"
        /\ ClickField(Resolve(layout, cand))
        /\ clicks' = Append(clicks, <<cand, Resolve(layout, cand)>>)
        /\ opened' = TRUE
        /\ pc' = "a_option"
        /\ UNCHANGED cand
     \/ /\ pc' = (IF cand = 3 THEN "a_fallback" ELSE "a_cand")   \* except: continue
        /\ cand' = cand + 1
        /\ UNCHANGED <<opened, clicks, pickerOpen, detailsClicks>>
  /\ UNCHANGED <<sessVars, html, rerender, catShown, layout, shown, pendingNav, calendar,
                 old_fp_js, textSeen, attempt, fp1, fp2, screenshots, pauses, trail,
                 scanVars, datesVars, sigVars, funVars,
                 reconciled>>

\* if not opened: click the first interactive element of the heading's block
Fallback ==
  /\ pc = "a_fallback"
  /\ \/ /\ ResolveFallback(layout) # "none"
        /\ ClickField(ResolveFallback(layout))
        /\ clicks' = Append(clicks, <<4, ResolveFallback(layout)>>)
        /\ pc' = "a_option"
     \/ /\ pc' = "a_except"
        /\ UNCHANGED <<clicks, pickerOpen, detailsClicks>>
  /\ UNCHANGED <<sessVars, html, rerender, catShown, layout, shown, pendingNav, calendar,
                 old_fp_js, textSeen, attempt, opened, cand, fp1, fp2, screenshots, pauses, trail,
                 scanVars, datesVars, sigVars, funVars,
                 reconciled>>

\* get_by_text("VISA Application", exact=True).click(); then the call of
\* _wait_calendar_changed_and_stable begins
ClickOption ==
  /\ pc = "a_option"
  /\ \/ /\ pickerOpen
        /\ pickerOpen' = FALSE /\ catShown' = TRUE
        /\ \E n \in 0..MaxRerender : rerender' = n
        /\ clicks' = Append(clicks, <<5, "option">>)
        /\ trail' = << >>
        /\ pc' = "w_changed"
     \/ /\ pc' = "a_except"
        /\ UNCHANGED <<pickerOpen, catShown, rerender, clicks, trail>>
  /\ UNCHANGED <<sessVars, html, detailsClicks, layout, shown, pendingNav, calendar,
                 old_fp_js, textSeen, attempt, opened, cand, fp1, fp2, screenshots, pauses,
                 scanVars, datesVars, sigVars, funVars,
                 reconciled>>

(***************************************************************************)
(* _wait_calendar_changed_and_stable                                       *)
(***************************************************************************)
\* page.wait_for_function(fp !== oldFp, timeout=timeout_ms)
WaitChanged ==
  /\ pc = "w_changed"
  /\ \/ /\ JsProbe(html) # old_fp_js
        /\ pc' = "w_fp1"
     \/ /\ JsProbe(html) = old_fp_js                  \* TimeoutError
        /\ pc' = "a_except"
  /\ UNCHANGED <<sessVars, pageVars, selVars, scanVars, datesVars, sigVars, funVars,
                 reconciled>>

\* wait_for_timeout(300); fp1 = await _calendar_fingerprint(page)
WaitFp1 ==
  /\ pc = "w_fp1"
  /\ \/ /\ fp1' = Md5(html) /\ trail' = trail \o <<"wait300", "md5">>
        /\ pc' = "w_fp2"
     \/ /\ pc' = "a_except"
        /\ UNCHANGED <<fp1, trail>>
  /\ UNCHANGED <<sessVars, pageVars, old_fp_js, textSeen, attempt, opened, cand, fp2, clicks,
                 screenshots, pauses, scanVars, datesVars, sigVars, funVars,
                 reconciled>>

\* wait_for_timeout(450); fp2 = await _calendar_fingerprint(page)
WaitFp2 ==
  /\ pc = "w_fp2"
  /\ \/ /\ fp2' = Md5(html) /\ trail' = trail \o <<"wait450", "md5">>
        /\ pc' = "w_settle"
     \/ /\ pc' = "a_except"
        /\ UNCHANGED <<fp2, trail>>
  /\ UNCHANGED <<sessVars, pageVars, old_fp_js, textSeen, attempt, opened, cand, fp1, clicks,
                 screenshots, pauses, scanVars, datesVars, sigVars, funVars,
                 reconciled>>

\* if fp1 != fp2: wait_for_timeout(650); back in ensure_category_only: log, return
WaitSettle ==
  /\ pc = "w_settle"
  /\ trail' = (IF NeedsSettle(fp1, fp2) THEN Append(trail, "wait650") ELSE trail)
  /\ reconciled' = TRUE
  /\ pc' = "e_return"
  /\ UNCHANGED <<sessVars, pageVars, old_fp_js, textSeen, attempt, opened, cand, fp1, fp2, clicks,
                 screenshots, pauses, scanVars, datesVars, sigVars, funVars>>

\* except Exception: log, screenshot, wait_for_timeout(900); after the third
\* attempt the for loop ends and RuntimeError is raised
AttemptExcept ==
  /\ pc = "a_except"
  /\ screenshots' = screenshots + 1
  /\ pauses' = pauses + 1
  /\ IF LastAttempt(attempt)
     THEN Fatal("RuntimeError: Failed to select") /\ UNCHANGED attempt
     ELSE pc' = "a_begin" /\ attempt' = attempt + 1 /\ UNCHANGED error
  /\ opened' = FALSE /\ cand' = 0 /\ clicks' = << >>      \* the attempt's locals
  /\ fp1' = NoFp /\ fp2' = NoFp /\ trail' = << >>
  /\ UNCHANGED <<session, contexts, cycle, caller, last_signature, results, sent,
                 attempted, policy, pageVars, old_fp_js, textSeen, scanVars, datesVars, sigVars, funVars,
                 reconciled>>

(***************************************************************************)
(* The calendar the page shows                                             *)
(***************************************************************************)
DefaultYear == 2025
DefaultMonth == 11

\* (year, month) in the header when the view is k months after the default
HeaderOf(k) ==
  LET t == DefaultYear * 12 + (DefaultMonth - 1) + k
  IN  <<t \div 12, (t % 12) + 1>>

\* get_month_label: f"{y}年{str(m).zfill(2)}月"
MonthLabel(ym) == <<ym[1], ym[2]>>

\* calendars the server may show: none open, 3 and 17 of the next month (the
\* 3 marked twice), 17 of the month after
Calendars == 0..2

\* the marker images of month k, in DOM order, each as the text of its cell
MarkerCells(cal, k) ==
  IF cal = 1 /\ k = 1 THEN <<(<<17>>), (<<3>>), (<<3>>)>>
  ELSE IF cal = 2 /\ k = 2 THEN <<(<<17>>)>>
  ELSE << >>

ScanPcs == {"scan_label", "scan_dates", "nav_click", "nav_after", "nav_after2"}

\* the page applies a pending next-month click
PageApplyNav ==
  /\ pc \in ScanPcs
  /\ pendingNav > 0
  /\ pendingNav' = pendingNav - 1
  /\ shown' = shown + 1
  /\ UNCHANGED <<pc, sessVars, html, rerender, catShown, pickerOpen, detailsClicks, layout,
                 calendar, selVars, scanVars, datesVars, sigVars, funVars,
                 reconciled>>

\* the page ignores a pending next-month click
PageDropNav ==
  /\ pc \in ScanPcs
  /\ pendingNav > 0
  /\ pendingNav' = pendingNav - 1
  /\ UNCHANGED <<pc, sessVars, html, rerender, catShown, pickerOpen, detailsClicks, layout,
                 shown, calendar, selVars, scanVars, datesVars, sigVars, funVars,
                 reconciled>>

\* a click on a.next01.js_change_date reaches the page
NavClicked == pendingNav' = (IF pendingNav < MaxPending THEN pendingNav + 1 ELSE pendingNav)

(***************************************************************************)
(* scan_months, click_next_month                                           *)
(***************************************************************************)
\* if i < SCAN_NEXT_MONTHS: await click_next_month(page)
AdvanceAfterEvery(k) == k <= SCAN_NEXT_MONTHS

AdvanceAfter(k) == k < SCAN_NEXT_MONTHS

\* for i in range(SCAN_NEXT_MONTHS + 1): the loop ends after this round
LastRound(k) == k >= SCAN_NEXT_MONTHS

\* get_year_month: if not m: raise RuntimeError(...); no caller below main
\* catches it
ParseFailureSkipped == pc' = "decide" /\ error' = "RuntimeError: Cannot parse"

ParseFailure == Fatal("RuntimeError: Cannot parse")

\* label = await get_month_label(page)
ScanLabel ==
  /\ pc = "scan_label"
  /\ \/ /\ label' = MonthLabel(HeaderOf(shown))
        /\ pc' = "scan_dates"
        /\ UNCHANGED error
     \/ /\ ParseFailure
        /\ UNCHANGED label
  /\ UNCHANGED <<session, contexts, cycle, caller, last_signature, results, sent,
                 attempted, policy, pageVars, selVars, i, found, before, ops,
                 datesVars, sigVars, funVars,
                 reconciled>>

\* the end of one round of the for loop: the next round, or return found
EndRound(f) ==
  IF LastRound(i)
  THEN pc' = "decide" /\ results' = f /\ UNCHANGED i
  ELSE pc' = "scan_label" /\ i' = i + 1 /\ UNCHANGED results

\* found[label] = await available_dates_current_month(page)
ScanDates ==
  /\ pc = "scan_dates"
  /\ \/ LET f == DictSet(found, label,
                   available_dates_current_month(HeaderOf(shown)[1], HeaderOf(shown)[2],
                                                 MarkerCells(calendar, shown)))
        IN  /\ found' = f
            /\ ops' = Append(ops, "read")
            /\ IF AdvanceAfter(i)
               THEN pc' = "nav_click" /\ UNCHANGED <<i, results>>
               ELSE EndRound(f)
            /\ UNCHANGED error
     \/ /\ ParseFailure
        /\ UNCHANGED <<found, ops, results, i>>
  /\ UNCHANGED <<session, contexts, cycle, caller, last_signature, sent,
                 attempted, policy, pageVars, selVars, label, before,
                 datesVars, sigVars, funVars, reconciled>>

\* click_next_month up to the first click
ClickNext ==
  /\ pc = "nav_click"
  /\ \/ /\ before' = MonthLabel(HeaderOf(shown))
        /\ NavClicked
        /\ ops' = Append(ops, "advance")
        /\ pc' = "nav_after"
        /\ UNCHANGED error
     \/ /\ ParseFailure
        /\ UNCHANGED <<before, pendingNav, ops>>
     \/ /\ Fatal("PlaywrightError")                    \* button not visible, click failed twice
        /\ UNCHANGED <<before, pendingNav, ops>>
  /\ UNCHANGED <<session, contexts, cycle, caller, last_signature, results, sent,
                 attempted, policy, html, rerender, catShown, pickerOpen, detailsClicks,
                 layout, shown, calendar, selVars, i, found, label, datesVars, sigVars, funVars,
                 reconciled>>

\* wait_for_timeout(700); after = get_month_label; JS click if after == before,
\* else log and return to scan_months
NavAfter ==
  /\ pc = "nav_after"
  /\ \/ /\ IF MonthLabel(HeaderOf(shown)) = before
           THEN NavClicked /\ pc' = "nav_after2" /\ UNCHANGED <<i, results>>
           ELSE EndRound(found) /\ UNCHANGED pendingNav
        /\ UNCHANGED error
     \/ /\ ParseFailure
        /\ UNCHANGED <<i, pendingNav, results>>
  /\ UNCHANGED <<session, contexts, cycle, caller, last_signature, sent,
                 attempted, policy, html, rerender, catShown, pickerOpen, detailsClicks,
                 layout, shown, calendar, selVars, found, label, before, ops,
                 datesVars, sigVars, funVars, reconciled>>

\* after the JS click: log(f"Moved to {after}") whatever the label is, return
AfterFallbackStrict(f) ==
  IF MonthLabel(HeaderOf(shown)) = before
  THEN Fatal("RuntimeError: Month unchanged") /\ UNCHANGED <<i, results>>
  ELSE EndRound(f) /\ UNCHANGED error

AfterFallback(f) == EndRound(f) /\ UNCHANGED error

\* wait_for_timeout(700); after = get_month_label; log and return to scan_months
NavAfter2 ==
  /\ pc = "nav_after2"
  /\ \/ AfterFallback(found)
     \/ /\ ParseFailure
        /\ UNCHANGED <<i, results>>
  /\ UNCHANGED <<session, contexts, cycle, caller, last_signature, sent,
                 attempted, policy, pageVars, selVars, found, label, before, ops,
                 datesVars, sigVars, funVars, reconciled>>

(***************************************************************************)
(* run_browser_session, refresh_and_reselect, main                         *)
(***************************************************************************)
\* values of the locals of a function that is not running
SelIdle ==
  /\ old_fp_js = PyProbe([edge |-> 0, body |-> 0])
  /\ textSeen = FALSE /\ attempt = 0 /\ opened = FALSE /\ cand = 0
  /\ fp1 = NoFp /\ fp2 = NoFp
  /\ clicks = << >> /\ screenshots = 0 /\ pauses = 0 /\ trail = << >>

ScanIdle ==
  /\ i = 0 /\ found = EmptyDict /\ label = <<0, 0>> /\ before = <<0, 0>> /\ ops = << >>

\* no page: before the first goto and after the context is closed
PageIdle ==
  /\ html = [edge |-> 0, body |-> 0] /\ rerender = 0
  /\ catShown = FALSE /\ pickerOpen = FALSE
  /\ shown = 0 /\ pendingNav = 0 /\ calendar = 0

\* a function returns or is left by an exception: its locals are gone
DropSelLocals ==
  /\ old_fp_js' = PyProbe([edge |-> 0, body |-> 0])
  /\ textSeen' = FALSE /\ attempt' = 0 /\ opened' = FALSE /\ cand' = 0
  /\ fp1' = NoFp /\ fp2' = NoFp
  /\ clicks' = << >> /\ screenshots' = 0 /\ pauses' = 0 /\ trail' = << >>

DropScanLocals ==
  /\ i' = 0 /\ found' = EmptyDict /\ label' = <<0, 0>> /\ before' = <<0, 0>> /\ ops' = << >>

\* the parts of the page only ensure_category_only looks at, which the next
\* load renders anew
DropSelectionView ==
  /\ html' = [edge |-> 0, body |-> 0] /\ rerender' = 0
  /\ catShown' = FALSE /\ pickerOpen' = FALSE
  /\ layout' = [category |-> "a", details |-> "a"]

\* the context is closed: the page is gone
DropPage ==
  /\ DropSelectionView
  /\ shown' = 0 /\ pendingNav' = 0 /\ calendar' = 0

\* names bound in the module: line 23 imports RECIEVER_EMAIL
ModuleGlobals ==
  {"QQ_SENDER_EMAIL", "QQ_AUTH_CODE", "RECIEVER_EMAIL", "send_qq_email", "format_email"}

\* names the call of send_qq_email loads before it can call
SendCallNames ==
  {"send_qq_email", "QQ_SENDER_EMAIL", "QQ_AUTH_CODE", "RECEIVER_EMAIL", "format_email"}

\* the page after goto or reload: default month, nothing pending, a fresh render
PageLoaded ==
  /\ shown' = 0 /\ pendingNav' = 0
  /\ html' = [edge |-> 0, body |-> 0]
  /\ pickerOpen' = FALSE
  /\ \E r \in 0..MaxRerender : rerender' = r
  /\ \E b \in BOOLEAN : catShown' = b
  /\ \E lay \in Layouts : layout' = lay
  /\ reconciled' = FALSE
  /\ UNCHANGED <<detailsClicks, calendar>>

\* main: try: await run_browser_session(); launch_persistent_context
Launch ==
  /\ pc = "m_loop"
  /\ session < MaxSessions
  /\ session' = session + 1
  /\ \/ /\ contexts' = contexts + 1
        /\ pc' = "s_goto"
        /\ UNCHANGED error
     \/ /\ pc' = "m_except" /\ error' = "PlaywrightError"
        /\ UNCHANGED contexts
  /\ cycle' = 0 /\ sent' = << >> /\ attempted' = << >>
  /\ UNCHANGED <<caller, last_signature, results, policy, pageVars, selVars, scanVars,
                 datesVars, sigVars, funVars,
                 reconciled>>

\* new_page, goto, wait_for_timeout(1400), call ensure_category_only
Goto ==
  /\ pc = "s_goto"
  /\ \/ /\ PageLoaded
        /\ caller' = "init"
        /\ pc' = "e_entry"
        /\ UNCHANGED error
     \/ /\ Fatal("PlaywrightError")
        /\ UNCHANGED <<pageVars, reconciled, caller>>
  /\ UNCHANGED <<session, contexts, cycle, last_signature, results, sent, attempted,
                 policy, selVars, scanVars, datesVars, sigVars, funVars>>

\* ensure_category_only has returned: last_signature = None after the first
\* call; then the top of while True and the call of scan_months
LoopTop ==
  /\ pc = "e_return"
  /\ cycle < MaxCycles
  /\ cycle' = cycle + 1
  /\ last_signature' = (IF caller = "init" THEN << >> ELSE last_signature)
  /\ found' = EmptyDict /\ i' = 0 /\ ops' = << >>
  /\ \E c \in Calendars : calendar' = c       \* what the server shows in this cycle
  /\ DropSelLocals
  /\ DropSelectionView
  /\ pc' = "scan_label"
  /\ UNCHANGED <<session, contexts, caller, results, sent, attempted, policy, error,
                 detailsClicks, shown, pendingNav, label, before, datesVars, sigVars, funVars,
                 reconciled>>

\* last_signature when the call of send_qq_email raised: the assignment at
\* line 409 comes after the call
AfterFailedSendAssigned(last, sig) == <<sig>>

AfterFailedSend(last, sig) == last

\* has_avail, the signature test, send_qq_email, the choice of the delay
Decide ==
  /\ pc = "decide"
  /\ IF HasAvail(results)
     THEN IF <<Signature(results)>> # last_signature
          THEN /\ attempted' = Append(attempted, Signature(results))
               /\ IF SendCallNames \subseteq ModuleGlobals
                  THEN \E delivered \in BOOLEAN :
                         IF delivered
                         THEN /\ sent' = Append(sent, Signature(results))
                              /\ last_signature' = <<Signature(results)>>
                              /\ policy' = "AFTER_EMAIL"
                              /\ pc' = "sleep"
                              /\ UNCHANGED error
                         ELSE /\ Fatal("SMTPException")
                              /\ last_signature' =
                                   AfterFailedSend(last_signature, Signature(results))
                              /\ UNCHANGED <<sent, policy>>
                  ELSE /\ Fatal("NameError")
                       /\ last_signature' =
                            AfterFailedSend(last_signature, Signature(results))
                       /\ UNCHANGED <<sent, policy>>
          ELSE /\ policy' = "AFTER_EMAIL"
               /\ pc' = "sleep"
               /\ UNCHANGED <<attempted, sent, last_signature, error>>
     ELSE /\ policy' = "NO_AVAIL"
          /\ pc' = "sleep"
          /\ UNCHANGED <<attempted, sent, last_signature, error>>
  /\ DropScanLocals
  /\ results' = EmptyDict                     \* rebuilt by the next scan
  /\ UNCHANGED <<session, contexts, cycle, caller, pageVars, selVars,
                 datesVars, sigVars, funVars,
                 reconciled>>

\* await asyncio.sleep(delay)
Sleep ==
  /\ pc = "sleep"
  /\ pc' = "reload"
  /\ UNCHANGED <<sessVars, pageVars, selVars, scanVars, datesVars, sigVars, funVars,
                 reconciled>>

\* refresh_and_reselect ends with: await ensure_category_only(page)
StraightToScan == "e_return"

AfterReload == "e_entry"

\* refresh_and_reselect up to the call of ensure_category_only
Reload ==
  /\ pc = "reload"
  /\ \/ /\ PageLoaded
        /\ caller' = "refresh"
        /\ pc' = AfterReload
        /\ UNCHANGED error
     \/ /\ Fatal("PlaywrightError")
        /\ UNCHANGED <<pageVars, reconciled, caller>>
  /\ UNCHANGED <<session, contexts, cycle, last_signature, results, sent, attempted,
                 policy, selVars, scanVars, datesVars, sigVars, funVars>>

\* finally: await context.close(), its exception swallowed
Finally ==
  /\ pc = "s_finally"
  /\ contexts' = contexts - 1
  /\ pc' = "m_except"
  /\ DropPage /\ DropSelLocals /\ DropScanLocals
  /\ results' = EmptyDict /\ reconciled' = FALSE
  /\ UNCHANGED <<session, cycle, caller, last_signature, sent, attempted, policy,
                 error, detailsClicks, datesVars, sigVars, funVars>>

\* except Exception: log, crash backoff sleep, next round of while True
Except ==
  /\ pc = "m_except"
  /\ policy' = "CRASH_RESTART"
  /\ error' = ""
  /\ pc' = "m_loop"
  /\ UNCHANGED <<session, contexts, cycle, caller, last_signature, results, sent,
                 attempted, pageVars, selVars, scanVars, datesVars, sigVars, funVars,
                 reconciled>>

MainIdle ==
  /\ pc = "idle"
  /\ session = 0 /\ contexts = 0 /\ cycle = 0 /\ caller = "init"
  /\ last_signature = << >> /\ results = EmptyDict
  /\ sent = << >> /\ attempted = << >> /\ policy = "" /\ error = ""
  /\ PageIdle /\ detailsClicks = 0 /\ reconciled = FALSE
  /\ layout = [category |-> "a", details |-> "a"]
  /\ SelIdle /\ ScanIdle

\* the process has started: main enters its loop
Init ==
  /\ pc = "m_loop"
  /\ session = 0 /\ contexts = 0 /\ cycle = 0 /\ caller = "init"
  /\ last_signature = << >> /\ results = EmptyDict
  /\ sent = << >> /\ attempted = << >> /\ policy = "" /\ error = ""
  /\ PageIdle /\ detailsClicks = 0 /\ reconciled = FALSE
  /\ layout = [category |-> "a", details |-> "a"]
  /\ SelIdle /\ ScanIdle
  /\ DatesIdle /\ SigIdle /\ DelayIdle /\ MailIdle

Next ==
  \/ Launch \/ Goto \/ LoopTop \/ Decide \/ Sleep \/ Reload \/ Finally \/ Except
  \/ EnsureEntry \/ EnsureGrace \/ AlreadyFp1 \/ AlreadyFp2 \/ AlreadySettle
  \/ AttemptBegin \/ TryCandidate \/ Fallback \/ ClickOption \/ AttemptExcept
  \/ WaitChanged \/ WaitFp1 \/ WaitFp2 \/ WaitSettle
  \/ ScanLabel \/ ScanDates \/ ClickNext \/ NavAfter \/ NavAfter2
  \/ PageRerender \/ PageApplyNav \/ PageDropNav

Spec == Init /\ [][Next]_vars

(***************************************************************************)
(* Properties of the session loop                                          *)
(***************************************************************************)
\* what a step from the notify decision does according to the specification
DecideAsSpecified ==
  pc = "decide" =>
    IF HasAvail(results) /\ <<Signature(results)>> # last_signature
    THEN /\ sent' = Append(sent, Signature(results))
         /\ last_signature' = <<Signature(results)>>
    ELSE /\ sent' = sent
         /\ last_signature' = last_signature

\* C1: in every cycle a notification is sent exactly when the scan has an
\* available date and its signature differs from the last-sent one; a sent
\* notification makes its signature the last-sent one; otherwise nothing is
\* sent and the last-sent signature stays.
C1_NotifyIffNewAvailability == [][DecideAsSpecified]_vars

(***************************************************************************)
(* Properties of ensure_category_only                                      *)
(***************************************************************************)
AttemptPcs ==
  {"a_begin", "a_cand", "a_fallback", "a_option", "w_changed", "w_fp1", "w_fp2",
   "w_settle", "a_except"}

\* an attempt is left, other than by success, only by the third failure
AttemptLeftOnlyByThirdFailure ==
  pc \in AttemptPcs /\ pc' \notin AttemptPcs /\ pc' # "e_return" =>
    /\ pc = "a_except" /\ attempt = 3
    /\ error' = "RuntimeError: Failed to select"

\* an exception inside an attempt goes to the handler of the same attempt
AttemptFailureIsCaught ==
  pc \in AttemptPcs \ {"a_except"} /\ pc' \notin AttemptPcs \ {"a_except"} =>
    pc' \in {"a_except", "e_return"} /\ attempt' = attempt /\ error' = error

\* C3: an exception raised in a Selecting attempt is caught and is followed
\* by one screenshot and one pause before the next attempt; the fatal error
\* is raised after exactly 3 attempts, 3 screenshots and 3 pauses, and there
\* is never a 4th attempt.
C3_ThreeAttemptsThreeScreenshots ==
  /\ [](pc \in AttemptPcs =>
          /\ attempt \in 1..3
          /\ screenshots = attempt - 1
          /\ pauses = attempt - 1)
  /\ [](error = "RuntimeError: Failed to select" /\ pc = "s_finally" =>
          attempt = 3 /\ screenshots = 3 /\ pauses = 3)
  /\ [][AttemptLeftOnlyByThirdFailure]_vars
  /\ [][AttemptFailureIsCaught]_vars

C3_Witness ==
  /\ pc = "s_finally"
  /\ error = "RuntimeError: Failed to select"
  /\ attempt = 3 /\ screenshots = 3 /\ pauses = 3

\* C4: once the grace wait has found the category text visible, the call
\* makes no click attempt and does nothing but the settle check before it
\* returns; with two equal samples it returns without the extended pause.
C4_AlreadySelectedNoClicks ==
  textSeen =>
    /\ clicks = << >>
    /\ pc \notin {"a_option", "w_changed", "w_fp1", "w_fp2", "w_settle"}
    /\ (pc = "e_return" /\ fp1 = fp2 => trail = <<"wait350", "md5", "wait450", "md5">>)

ChangePhaseStep ==
  pc = "w_changed" /\ pc' # "w_changed" =>
    IF JsProbe(html) # old_fp_js
    THEN pc' = "w_fp1" /\ trail' = << >>
    ELSE pc' = "a_except" /\ trail' = << >>

C6_WitnessStable ==
  /\ pc = "e_return" /\ ~textSeen
  /\ fp1 = fp2 /\ fp1 # NoFp
  /\ trail = <<"wait300", "md5", "wait450", "md5">>

(***************************************************************************)
(* Properties of scan_months                                               *)
(***************************************************************************)
\* read, advance, read, ..., the first n entries
ReadAdvance(n) == [k \in 1..n |-> IF k % 2 = 1 THEN "read" ELSE "advance"]

\* the displayed month goes back only when the page is loaded or closed
NoBackwardNavigation == shown' < shown => pc \in {"reload", "s_finally"}

\* C7: a scan is SCAN_NEXT_MONTHS + 1 month reads and SCAN_NEXT_MONTHS
\* advances, strictly alternating and ending with a read; the displayed month
\* never moves backward during a scan and goes back to the default month only
\* when the page is loaded again.
C7_ReadsAndAdvancesAlternate ==
  /\ [](pc \in ScanPcs \/ pc = "decide" => ops = ReadAdvance(Len(ops)))
  /\ [](pc = "decide" => ops = ReadAdvance(2 * SCAN_NEXT_MONTHS + 1))
  /\ [](pc \in ScanPcs => Len(ops) <= 2 * SCAN_NEXT_MONTHS + 1)
  /\ [][NoBackwardNavigation]_vars

C7_Witness ==
  /\ pc = "decide"
  /\ ops = <<"read", "advance", "read", "advance", "read", "advance", "read">>
  /\ Len(results.keys) = 4
  /\ shown = 3

\* sleep, reload, reconciler, scan follow each other in this order
ReloadThenReconcile ==
  /\ pc = "sleep" => pc' = "reload"
  /\ pc = "reload" => (pc' = "e_entry" /\ ~reconciled') \/ pc' = "s_finally"
  /\ pc' \in ScanPcs /\ pc \notin ScanPcs => pc = "e_return"

\* C10: after the sleep the page is reloaded and the reconciler runs again;
\* a scan runs only when the reconciler has returned since the last load.
C10_ScanOnlyAfterReconcile ==
  /\ [](pc \in ScanPcs => reconciled)
  /\ [][ReloadThenReconcile]_vars

\* the scan of a second cycle
C10_Witness ==
  /\ pc = "scan_dates"
  /\ cycle = 2 /\ caller = "refresh"
  /\ reconciled

(***************************************************************************)
(* Properties of the delay policy, the context and the failure paths       *)
(***************************************************************************)
\* the decision is followed by one sleep under the policy availability
\* selects, and the sleep by the reload
SleepPolicyStep ==
  /\ pc = "decide" =>
       /\ pc' = "sleep"
       /\ policy' = (IF HasAvail(results) THEN "AFTER_EMAIL" ELSE "NO_AVAIL")
  /\ pc' = "sleep" /\ pc # "sleep" => pc = "decide"
  /\ pc = "sleep" /\ pc' # "sleep" => pc' = "reload"

\* C11: every cycle sleeps exactly once, after the notify decision and before
\* the reload, under the post-notification policy when any month has an
\* available date (sent or not) and under the idle-poll policy otherwise.
C11_SleepPolicyByAvailability == [][SleepPolicyStep]_vars

SessionPcs == {"m_loop", "m_except"}

\* a session attempt that holds a context ends only through the finally
\* block, which closes the context before main's handler runs
SessionExitStep ==
  /\ pc \notin SessionPcs /\ pc' \in SessionPcs => pc = "s_finally" /\ pc' = "m_except"
  /\ pc = "s_finally" /\ pc' # pc => pc' = "m_except" /\ contexts' = 0
  /\ contexts' > contexts => pc = "m_loop" /\ contexts = 0

\* C12: a context acquired for a session attempt is closed on every exit path
\* of the attempt, before main handles the failure and backs off; there are
\* never two contexts open.
C12_ContextClosedOnEveryExit ==
  /\ [](contexts \in 0..1)
  /\ [](pc \in SessionPcs => contexts = 0)
  /\ [](pc \notin SessionPcs => contexts = 1)
  /\ [][SessionExitStep]_vars

\* the second session attempt holds its context after the first one failed
C12_Witness ==
  /\ session = 2 /\ contexts = 1
  /\ policy = "CRASH_RESTART"
  /\ pc = "e_entry"

\* a parse failure arises in the scanner and only the finally block and
\* main's handler run after it
ParseFailureStep ==
  /\ error' = "RuntimeError: Cannot parse" /\ error' # error =>
       pc \in ScanPcs /\ pc' = "s_finally"
  /\ error = "RuntimeError: Cannot parse" =>
       /\ sent' = sent /\ attempted' = attempted
       /\ pc' \in {pc, "m_except", "m_loop"}

\* C13: a month header that does not parse, at any read of a scan or of an
\* advance, ends the session at once: nothing in the scanner or the session
\* loop catches it, and no notification, sleep or reload follows in the cycle.
C13_ParseFailureIsFatal ==
  /\ [](error = "RuntimeError: Cannot parse" => pc \in {"s_finally", "m_except"})
  /\ [][ParseFailureStep]_vars

\* the header failed to parse at the re-read after the first advance
C13_Witness ==
  /\ pc = "s_finally"
  /\ error = "RuntimeError: Cannot parse"
  /\ ops = <<"read", "advance">>
  /\ i = 0

\* the step that ends click_next_month after the JS click
UnchangedLabelStep ==
  pc = "nav_after2" /\ pc' # pc /\ error' # "RuntimeError: Cannot parse" =>
    /\ error' = error
    /\ pc' = "scan_label" /\ i' = i + 1
    /\ found' = found

\* C14: click_next_month returns without raising when the label is still
\* unchanged after the JS click; scan_months goes on with its remaining reads
\* and advances and returns a result, possibly with fewer distinct months.
C14_UnchangedLabelNotRaised ==
  /\ [][UnchangedLabelStep]_vars
  /\ [](pc = "decide" =>
          /\ Len(results.keys) \in 1..(SCAN_NEXT_MONTHS + 1)
          /\ Len(ops) = 2 * SCAN_NEXT_MONTHS + 1)

\* no click took effect: the scan read the default month four times
C14_Witness ==
  /\ pc = "decide"
  /\ shown = 0 /\ pendingNav = 0
  /\ Len(ops) = 2 * SCAN_NEXT_MONTHS + 1
  /\ results.keys = <<MonthLabel(HeaderOf(0))>>

\* C17: _wait_calendar_changed_and_stable returns normally only after two
\* consecutive md5 samples of the calendar were equal.
C17_ReturnsOnlyWhenStable ==
  pc = "e_return" /\ ~textSeen => fp1 # NoFp /\ fp1 = fp2

SendErrors == {"NameError", "SMTPException"}

\* a failing send ends the session and leaves the last-sent signature alone
FailedSendStep ==
  /\ error' \in SendErrors /\ error' # error =>
       /\ pc = "decide" /\ pc' = "s_finally"
       /\ last_signature' = last_signature /\ sent' = sent
  /\ error \in SendErrors => pc' \in {pc, "m_except", "m_loop"}

\* C18: a failing send is neither caught nor retried in the session loop: the
\* session ends, the last-sent signature is not set to the unsent signature,
\* no sleep or reload follows, and the next session starts without a last-sent
\* signature; the last-sent signature is always empty or the signature of the
\* most recent notification sent.
C18_FailedSendIsFatal ==
  /\ [](error \in SendErrors => pc \in {"s_finally", "m_except"})
  /\ [](\/ last_signature = << >>
        \/ sent # << >> /\ last_signature = <<sent[Len(sent)]>>)
  /\ [](cycle = 1 /\ pc \in ScanPcs => last_signature = << >>)
  /\ [][FailedSendStep]_vars

\* the send of the second cycle failed and the session is over
C18_Witness ==
  /\ pc = "m_except" /\ error = "NameError"
  /\ cycle = 2 /\ contexts = 0
  /\ attempted # << >> /\ sent = << >>
  /\ last_signature = << >>

(***************************************************************************)
(* Properties of the picker-opening ladder and of click_next_month         *)
(***************************************************************************)
\* sibling link, role-marked element, generic button
StrategyOrder == <<"a", "role", "button">>

WaitPcs == {"w_changed", "w_fp1", "w_fp2", "w_settle"}

\* strategies advance one at a time and only on failure; the baseline is the
\* one captured at entry; success comes out of the changed-then-stable wait
LadderStep ==
  /\ pc = "a_cand" /\ cand' # cand /\ pc' # "a_except" =>
       cand' = cand + 1 /\ ~opened' /\ clicks' = << >>
  /\ pc' = "a_fallback" => pc \in {"a_cand", "a_fallback"} /\ cand' = 4
  /\ pc \in AttemptPcs /\ pc' \in AttemptPcs \cup {"e_return"} => old_fp_js' = old_fp_js
  /\ pc = "e_entry" /\ pc' = "e_grace" => old_fp_js' = PyProbe(html)
  /\ pc = "e_grace" => old_fp_js' = old_fp_js
  /\ pc = "w_changed" /\ pc' = "w_fp1" => JsProbe(html) # old_fp_js
  /\ pc \in AttemptPcs /\ pc' = "e_return" => pc = "w_settle"
  /\ pc' = "w_settle" => pc \in {"w_fp2", "w_settle"}
  /\ pc' = "w_fp2" => pc \in {"w_fp1", "w_fp2"}
  /\ pc' = "w_fp1" => pc \in {"w_changed", "w_fp1"}
  /\ pc' = "w_changed" => pc \in {"a_option", "w_changed"}

\* C19: in one attempt the strategies are tried in the order link, role
\* element, button, a later one only after every earlier one failed and the
\* heading-block fallback only after all three failed; one opener click
\* succeeds at most; the option is clicked only after an opener click; the
\* attempt succeeds only through the changed-then-stable wait against the
\* baseline captured at entry.
C19_OpenerLadderInOrder ==
  /\ [](pc = "a_cand" => cand \in 1..3 /\ clicks = << >> /\ ~opened)
  /\ [](pc = "a_fallback" => cand = 4 /\ clicks = << >> /\ ~opened)
  /\ [](pc = "a_option" =>
          /\ Len(clicks) = 1 /\ clicks[1][2] = "category"
          /\ IF opened
             THEN cand \in 1..3 /\ clicks[1][1] = cand /\ layout.category = StrategyOrder[cand]
             ELSE cand = 4 /\ clicks[1][1] = 4)
  /\ [](pc \in WaitPcs =>
          Len(clicks) = 2 /\ clicks[1][1] \in 1..4 /\ clicks[2] = <<5, "option">>)
  /\ [][LadderStep]_vars

\* the link and the role strategy failed, the button strategy opened the picker
C19_Witness ==
  /\ pc = "e_return" /\ ~textSeen
  /\ clicks = <<(<<3, "category">>), (<<5, "option">>)>>
  /\ opened

\* the calendar month after a month label
NextMonthOf(l) == IF l[2] = 12 THEN <<l[1] + 1, 1>> ELSE <<l[1], l[2] + 1>>

\* C20: one call of click_next_month moves the displayed month forward by one
\* month at most, also when the page applies clicks late, so the month labels
\* of one scan are consecutive calendar months.
C20_AtMostOneMonthPerAdvance ==
  /\ pc \in {"nav_after", "nav_after2"} =>
       MonthLabel(HeaderOf(shown)) \in {before, NextMonthOf(before)}
  /\ pc = "decide" =>
       \A j \in 1..(Len(results.keys) - 1) :
          results.keys[j + 1] = NextMonthOf(results.keys[j])

(***************************************************************************)
(* SpecDates: available_dates_current_month on every small calendar body   *)
(***************************************************************************)

InitDates ==
  /\ \E h \in Headers : year = h[1] /\ month = h[2]
  /\ imgs = << >>
  /\ dates = << >>
  /\ dpc = "render"
  /\ SigIdle /\ DelayIdle /\ MailIdle
  /\ MainIdle

\* the page renders one more marker image, in the cell with text t
RenderMarker(t) ==
  /\ dpc = "render"
  /\ Len(imgs) < MaxMarkers
  /\ imgs' = Append(imgs, t)
  /\ UNCHANGED <<year, month, dates, dpc, sigVars, funVars, mainVars>>

ScanCurrentMonth ==
  /\ dpc = "render"
  /\ dates' = available_dates_current_month(year, month, imgs)
  /\ dpc' = "returned"
  /\ UNCHANGED <<year, month, imgs, sigVars, funVars, mainVars>>

NextDates ==
  \/ \E t \in CellTexts : RenderMarker(t)
  \/ ScanCurrentMonth

SpecDates == InitDates /\ [][NextDates]_vars


\* the days d of the displayed month with a marker in a cell whose first
\* number of one or two digits is d
MarkedDays(cells) ==
  {d \in 0..99 : \E k \in 1..Len(cells) : \E p \in 1..Len(cells[k]) :
      /\ cells[k][p] = d
      /\ \A q \in 1..(p - 1) : cells[k][q] \notin 0..99}

\* C9: the list returned by available_dates_current_month has no two entries
\* with the same ISO date, is sorted ascending by date, and holds exactly the
\* valid dates of the displayed month that carry a marker, each with its
\* weekday name.
C9_DatesDedupSortedExact ==
  dpc = "returned" =>
    /\ \A a, b \in 1..Len(dates) : a < b => IsoLess(dates[a][1], dates[b][1])
    /\ \A a, b \in 1..Len(dates) : a # b => dates[a][1] # dates[b][1]
    /\ {dates[a][1] : a \in 1..Len(dates)}
         = {<<year, month, d>> : d \in {e \in MarkedDays(imgs) : ValidDate(year, month, e)}}
    /\ \A a \in 1..Len(dates) :
         dates[a][2] = DOW_EN[Weekday(dates[a][1][1], dates[a][1][2], dates[a][1][3]) + 1]

\* markers in cells "3", "3", "17" of May 2025
C9_Witness ==
  /\ dpc = "returned"
  /\ year = 2025 /\ month = 5
  /\ imgs = <<(<<3>>), (<<3>>), (<<17>>)>>
  /\ dates = <<(<<(<<2025, 5, 3>>), "Saturday">>), (<<(<<2025, 5, 17>>), "Saturday">>)>>

\* a marker on day 31 of a 30-day month and one in a cell without a number
C9_WitnessInvalid ==
  /\ dpc = "returned"
  /\ year = 2025 /\ month = 11
  /\ imgs = <<(<<31>>), (<<Word>>), (<<17>>)>>
  /\ Len(dates) = 1

(***************************************************************************)
(* SpecSig: two scan results filled by found[lab] = ..., and their       *)
(* signatures                                                              *)
(***************************************************************************)
SigLabels == {<<2025, 5>>, <<2025, 6>>}
\* marker cells in DOM order: none; 3 then 17; 17, 3 and 3 again
SigCells == {<< >>, <<(<<3>>), (<<17>>)>>, <<(<<17>>), (<<3>>), (<<3>>)>>}

InitSig ==
  /\ DatesIdle
  /\ foundA = EmptyDict /\ foundB = EmptyDict
  /\ rawA = << >> /\ rawB = << >>
  /\ DelayIdle /\ MailIdle
  /\ MainIdle

\* found[lab] = await available_dates_current_month(page), first scan
ScanIntoA(lab, cells) ==
  /\ Len(rawA) < MaxInserts
  /\ foundA' = DictSet(foundA, lab, available_dates_current_month(lab[1], lab[2], cells))
  /\ rawA' = Append(rawA, <<lab, cells>>)
  /\ UNCHANGED <<foundB, rawB, datesVars, funVars, mainVars>>

\* the same, second scan
ScanIntoB(lab, cells) ==
  /\ Len(rawB) < MaxInserts
  /\ foundB' = DictSet(foundB, lab, available_dates_current_month(lab[1], lab[2], cells))
  /\ rawB' = Append(rawB, <<lab, cells>>)
  /\ UNCHANGED <<foundA, rawA, datesVars, funVars, mainVars>>

NextSig ==
  \/ \E lab \in SigLabels, cells \in SigCells : ScanIntoA(lab, cells)
  \/ \E lab \in SigLabels, cells \in SigCells : ScanIntoB(lab, cells)

SpecSig == InitSig /\ [][NextSig]_vars

\* sig != last_signature
Changed(sig, last) == sig # last

\* the marker cells last read for a month
LastCells(raw, lab) ==
  LET js == {j \in 1..Len(raw) : raw[j][1] = lab}
  IN  IF js = {} THEN << >> ELSE raw[CHOOSE j \in js : \A z \in js : z <= j][2]

\* the months of a scan in the order they were first read
RECURSIVE FirstReads(_)
FirstReads(raw) ==
  IF raw = << >> THEN << >>
  ELSE LET front == FirstReads(SubSeq(raw, 1, Len(raw) - 1))
           lab == raw[Len(raw)][1]
       IN  IF lab \in SeqToSet(front) THEN front ELSE Append(front, lab)

NO_AVAIL_MEAN_SECONDS == 90
NO_AVAIL_STD_SECONDS == 10
AFTER_EMAIL_MEAN_SECONDS == 600
AFTER_EMAIL_STD_SECONDS == 12
CRASH_RESTART_MEAN_SECONDS == 45
CRASH_RESTART_STD_SECONDS == 10

\* the (mean, std) pairs jittered_gaussian_delay is called with
DelayConfigs ==
  { <<NO_AVAIL_MEAN_SECONDS, NO_AVAIL_STD_SECONDS>>,
    <<AFTER_EMAIL_MEAN_SECONDS, AFTER_EMAIL_STD_SECONDS>>,
    <<CRASH_RESTART_MEAN_SECONDS, CRASH_RESTART_STD_SECONDS>> }

\* deviates of random.gauss reach this many half standard deviations
MaxHalfSigmas == 110

\* deviates in tenths of std; jitter of random.uniform(-2, 2) in tenths
ZDraws == {5 * k : k \in (0 - MaxHalfSigmas)..MaxHalfSigmas}
Jitters == (0 - 20)..20

\* random.gauss(mean, std) + random.uniform(-2, 2), in tenths of a second
RawDelay(m, sd, z, u) == 10 * m + z * sd + u

\* int(delay): truncation toward zero
IntTrunc(x) == IF x >= 0 THEN x \div 10 ELSE 0 - ((0 - x) \div 10)

NoFloor(n) == n

\* max(5, n)
FloorAtFive(n) == IF n > 5 THEN n ELSE 5

jittered_gaussian_delay(m, sd, z, u) == FloorAtFive(IntTrunc(RawDelay(m, sd, z, u)))

InitDelay ==
  /\ \E cfg \in DelayConfigs : mean = cfg[1] /\ std = cfg[2]
  /\ zdraw = 0 /\ jitter = 0 /\ delay = 0
  /\ qpc = "gauss"
  /\ DatesIdle /\ SigIdle /\ MailIdle
  /\ MainIdle

\* random.gauss(mean, std)
DrawGauss(z) ==
  /\ qpc = "gauss"
  /\ zdraw' = z
  /\ qpc' = "uniform"
  /\ UNCHANGED <<mean, std, jitter, delay, mailVars, datesVars, sigVars, mainVars>>

\* random.uniform(-2, 2)
DrawJitter(u) ==
  /\ qpc = "uniform"
  /\ jitter' = u
  /\ qpc' = "return"
  /\ UNCHANGED <<mean, std, zdraw, delay, mailVars, datesVars, sigVars, mainVars>>

\* return max(5, int(delay))
ReturnDelay ==
  /\ qpc = "return"
  /\ delay' = jittered_gaussian_delay(mean, std, zdraw, jitter)
  /\ qpc' = "returned"
  /\ UNCHANGED <<mean, std, zdraw, jitter, mailVars, datesVars, sigVars, mainVars>>

NextDelay ==
  \/ \E z \in ZDraws : DrawGauss(z)
  \/ \E u \in Jitters : DrawJitter(u)
  \/ ReturnDelay

SpecDelay == InitDelay /\ [][NextDelay]_vars

\* C15: jittered_gaussian_delay returns an integer that is at least 5 for
\* every configured mean and std and every draw, also when the drawn sum is
\* negative or below 5; above the floor it is the integer part of the sum.
C15_DelayAtLeastFive ==
  qpc = "returned" =>
    /\ delay \in Nat
    /\ delay >= 5
    /\ (RawDelay(mean, std, zdraw, jitter) >= 60 =>
          /\ 10 * delay <= RawDelay(mean, std, zdraw, jitter)
          /\ RawDelay(mean, std, zdraw, jitter) < 10 * delay + 10)

\* a draw far below the mean: the sum is negative
C15_Witness ==
  /\ qpc = "returned"
  /\ mean = NO_AVAIL_MEAN_SECONDS
  /\ RawDelay(mean, std, zdraw, jitter) < 0
  /\ delay = 5

(***************************************************************************)
(* SpecMail: format_email on small scan results.  The text returned is the *)
(* sequence of its lines.                                                  *)
(***************************************************************************)
MaxMonths == 2

MailLabels == {<<2025, 11>>, <<2025, 12>>, <<2026, 1>>}
\* marker cells of a month: none; 3 and 17; 17
MailCells == {<< >>, <<(<<3>>), (<<17>>)>>, <<(<<17>>)>>}

\* "No available dates."
Sentinel == <<(<<"none">>)>>

SkipMonthNever(items) == FALSE

\* if not items: continue
SkipMonth(items) == items = << >>

\* f"  - {d} ({dow})" for each item of a month
ItemLines(items) == [k \in 1..Len(items) |-> <<"item", items[k][1], items[k][2]>>]

\* the for loop over results.items(): the lines appended for months j..
RECURSIVE MonthLines(_, _)
MonthLines(res, j) ==
  IF j > Len(res.keys) THEN << >>
  ELSE IF SkipMonth(res.val[j]) THEN MonthLines(res, j + 1)
  ELSE <<(<<"month", res.keys[j]>>)>> \o ItemLines(res.val[j]) \o <<(<<"">>)>>
         \o MonthLines(res, j + 1)

\* total += 1 for each item listed
CountItems(ls) == Cardinality({k \in 1..Len(ls) : ls[k][1] = "item"})

format_email(res) ==
  LET lines == <<(<<"Available visa appointment dates:">>)>> \o MonthLines(res, 1)
      total == CountItems(lines)
  IN  IF total = 0 THEN Sentinel
      ELSE lines \o <<(<<"total", total>>), (<<"checked at">>), (<<"page">>)>>

InitMail ==
  /\ report = EmptyDict /\ body = << >> /\ mpc = "build"
  /\ DatesIdle /\ SigIdle /\ DelayIdle
  /\ MainIdle

\* the scan put one more month into the result
AddMonth(lab, cells) ==
  /\ mpc = "build"
  /\ Len(report.keys) < MaxMonths
  /\ report' = DictSet(report, lab, available_dates_current_month(lab[1], lab[2], cells))
  /\ UNCHANGED <<body, mpc, delayVars, datesVars, sigVars, mainVars>>

FormatEmail ==
  /\ mpc = "build"
  /\ body' = format_email(report)
  /\ mpc' = "returned"
  /\ UNCHANGED <<report, delayVars, datesVars, sigVars, mainVars>>

NextMail ==
  \/ \E lab \in MailLabels, cells \in MailCells : AddMonth(lab, cells)
  \/ FormatEmail

SpecMail == InitMail /\ [][NextMail]_vars

\* the months of a result that have dates, in the order of the result
RECURSIVE NonEmptyMonths(_, _)
NonEmptyMonths(res, j) ==
  IF j > Len(res.keys) THEN << >>
  ELSE (IF res.val[j] = << >> THEN << >> ELSE <<res.keys[j]>>) \o NonEmptyMonths(res, j + 1)

RECURSIVE SumOfLengths(_, _)
SumOfLengths(res, j) ==
  IF j > Len(res.keys) THEN 0 ELSE Len(res.val[j]) + SumOfLengths(res, j + 1)

IsMonthLine(l) == l[1] = "month"

IsTotalLine(l) == l[1] = "total"

\* C16: for a result whose date lists are all empty, a result without months
\* included, format_email returns exactly the no-availability sentinel, with
\* no month header; for any other result it lists only the months that have
\* dates and a total equal to the sum of the lengths of all date lists.
C16_SentinelOrNonEmptyMonths ==
  mpc = "returned" =>
    IF \A j \in 1..Len(report.val) : report.val[j] = << >>
    THEN body = Sentinel
    ELSE /\ body # Sentinel
         /\ SelectSeq(body, IsMonthLine)
              = [k \in 1..Len(NonEmptyMonths(report, 1)) |->
                   <<"month", NonEmptyMonths(report, 1)[k]>>]
         /\ SelectSeq(body, IsTotalLine) = <<(<<"total", SumOfLengths(report, 1)>>)>>
         /\ CountItems(body) = SumOfLengths(report, 1)

\* a month without dates followed by a month with two
C16_Witness ==
  /\ mpc = "returned"
  /\ Len(report.keys) = 2
  /\ report.val[1] = << >> /\ Len(report.val[2]) = 2
  /\ Len(SelectSeq(body, IsMonthLine)) = 1

\* months only, no dates
C16_WitnessAllEmpty ==
  /\ mpc = "returned"
  /\ Len(report.keys) = 2
  /\ report.val[1] = << >> /\ report.val[2] = << >>
  /\ body = Sentinel

=============================================================================
